---- MODULE Spec2Model ----
(***************************************************************************)
(* Payment and wallet ledger of the tutoring marketplace                   *)
(* (harcourt_university/payments).  Money is counted in the smallest       *)
(* stored unit (0.01 GHS, the two decimal places of the DecimalFields);    *)
(* a request amount that may carry a third decimal is counted in mills     *)
(* (0.001 GHS) and quantized when it is stored.                            *)
(***************************************************************************)
EXTENDS Integers, Sequences, FiniteSets, TLC

VARIABLES
    wallets,      \* user -> [exists, balance]            (Wallet rows)
    walletTx,     \* user -> sequence of WalletTransaction rows, oldest first
    calls,        \* history: the direct Wallet method calls made so far
    payments,     \* sequence of Payment rows; the index is the payment id
    intents,      \* gateway: payment ids for which a charge intent exists
    sessions,     \* session id -> TutoringSession row
    subs,         \* tutor -> TutorSubscription row
    profiles,     \* tutor -> TutorProfile subscription flags
    now,          \* timezone.now(), in days
    deliveries,   \* history: number of gateway notifications delivered
    audit,        \* history: payment id -> how often its side effect was applied
    refunds,      \* sequence of Refund rows, oldest first
    refundRequests, \* history: the refund requests that found their Payment
    inflight,     \* request -> the Wallet instance it loaded and its call
    paymentMethods, \* sequence of PaymentMethod rows; the index is the pk
    invoices,     \* the Invoice table: numbers generated, and the index
    packages,     \* sequence of PurchasedPackage rows; the index is the pk
    downloads     \* ResourceDownload rows, download counts, responses given

vars == <<wallets, walletTx, calls, payments, intents, sessions, subs,
          profiles, now, deliveries, audit, refunds, refundRequests,
          inflight, paymentMethods, invoices, packages, downloads>>

walletVars == <<wallets, walletTx, calls>>
refundVars == <<refunds, refundRequests>>
otherVars == <<inflight, paymentMethods, invoices, packages, downloads>>
paymentVars == <<payments, intents, sessions, subs, profiles, now,
                 deliveries, audit, refunds, refundRequests>>

(***************************************************************************)
(* Bounds of the model                                                     *)
(***************************************************************************)
MaxAmount == 3        \* largest amount passed to a direct wallet call
MaxBalance == 5       \* direct credits stop once the balance would pass this
MaxCalls == 3         \* direct wallet calls recorded per run

Users == {"u1", "u2"}
NULL == -1

(***************************************************************************)
(* Wallet (payments/models.py)                                             *)
(***************************************************************************)

\* A wallet as the methods see it: its balance and its transaction rows.
WalletOf(u) == [balance |-> wallets[u].balance, tx |-> walletTx[u]]

WalletTransaction(ttype, amount, balance_after) ==
    [transaction_type |-> ttype, amount |-> amount,
     balance_after |-> balance_after]

add_funds_no_row(w, amount, transaction_type) ==
    IF amount > 0
    THEN [balance |-> w.balance + amount, tx |-> w.tx, ok |-> TRUE]
    ELSE [balance |-> w.balance, tx |-> w.tx, ok |-> FALSE]

add_funds_any_amount(w, amount, transaction_type) ==
    [balance |-> w.balance + amount,
     tx |-> Append(w.tx, WalletTransaction(transaction_type, amount,
                                           w.balance + amount)),
     ok |-> TRUE]

\* Wallet.add_funds: returns the wallet after the call and the return value.
add_funds(w, amount, transaction_type) ==
    IF amount > 0
    THEN [balance |-> w.balance + amount,
          tx |-> Append(w.tx, WalletTransaction(transaction_type, amount,
                                                w.balance + amount)),
          ok |-> TRUE]
    ELSE [balance |-> w.balance, tx |-> w.tx, ok |-> FALSE]

deduct_funds_no_balance_check(w, amount) ==
    IF amount > 0
    THEN [balance |-> w.balance - amount,
          tx |-> Append(w.tx, WalletTransaction("debit", amount,
                                                w.balance - amount)),
          ok |-> TRUE]
    ELSE [balance |-> w.balance, tx |-> w.tx, ok |-> FALSE]

deduct_funds_no_row(w, amount) ==
    IF w.balance >= amount /\ amount > 0
    THEN [balance |-> w.balance - amount, tx |-> w.tx, ok |-> TRUE]
    ELSE [balance |-> w.balance, tx |-> w.tx, ok |-> FALSE]

deduct_funds_writes_before_check(w, amount) ==
    IF w.balance >= amount /\ amount > 0
    THEN [balance |-> w.balance - amount,
          tx |-> Append(w.tx, WalletTransaction("debit", amount,
                                                w.balance - amount)),
          ok |-> TRUE]
    ELSE [balance |-> w.balance,
          tx |-> Append(w.tx, WalletTransaction("debit", 0, w.balance)),
          ok |-> FALSE]

\* Wallet.deduct_funds
deduct_funds(w, amount) ==
    IF w.balance >= amount /\ amount > 0
    THEN [balance |-> w.balance - amount,
          tx |-> Append(w.tx, WalletTransaction("debit", amount,
                                                w.balance - amount)),
          ok |-> TRUE]
    ELSE [balance |-> w.balance, tx |-> w.tx, ok |-> FALSE]

\* Wallet.has_sufficient_balance
has_sufficient_balance(w, amount) == w.balance >= amount

\* The wallet row and its transactions after a method call returned r.
StoreWallet(u, r) ==
    /\ wallets' = [wallets EXCEPT ![u].balance = r.balance]
    /\ walletTx' = [walletTx EXCEPT ![u] = r.tx]

\* One record of the call history.
Call(op, u, amount, w, r) ==
    [op |-> op, user |-> u, amount |-> amount, ok |-> r.ok,
     balance_before |-> w.balance, rows_before |-> w.tx]

AmountInputs == (-1) .. MaxAmount

\* wallet.add_funds(amount) called directly, with the default transaction_type
AddFunds(u, amount) ==
    LET w == WalletOf(u)
        r == add_funds(w, amount, "credit")
    IN  /\ wallets[u].exists
        /\ Len(calls) < MaxCalls
        /\ r.balance <= MaxBalance
        /\ StoreWallet(u, r)
        /\ calls' = Append(calls, Call("add_funds", u, amount, w, r))
        /\ UNCHANGED paymentVars
        /\ UNCHANGED otherVars

\* wallet.deduct_funds(amount) called directly
DeductFunds(u, amount) ==
    LET w == WalletOf(u)
        r == deduct_funds(w, amount)
    IN  /\ wallets[u].exists
        /\ Len(calls) < MaxCalls
        /\ StoreWallet(u, r)
        /\ calls' = Append(calls, Call("deduct_funds", u, amount, w, r))
        /\ UNCHANGED paymentVars
        /\ UNCHANGED otherVars

(***************************************************************************)
(* Stored decimals                                                         *)
(***************************************************************************)

\* numerator/denominator rounded to the nearest integer, ties to even: what
\* a DecimalField(decimal_places=2) stores of a value with more places.
QuantizeHalfEven(numerator, denominator) ==
    LET q == numerator \div denominator
        r == numerator % denominator
    IN  IF 2 * r > denominator \/ (2 * r = denominator /\ q % 2 = 1)
        THEN q + 1
        ELSE q

\* int(amount * 100) of an amount given in mills: the gateway's minor units.
MinorUnitsOfMills(mills) ==
    IF mills >= 0 THEN mills \div 10 ELSE -((-mills) \div 10)

\* TutoringSession.save: total_amount = rate * (duration / 60), as stored.
SessionTotal(rate, duration) == QuantizeHalfEven(rate * duration, 60)

(***************************************************************************)
(* Users, sessions                                                         *)
(***************************************************************************)
Tutors == {"u2"}          \* CustomUser.is_tutor

SessionIds == {1, 2}

\* The sessions on offer: both booked by student u1 with tutor u2, at a
\* rate of 0.02 GHS an hour, one of an hour and one of an hour and a half.
InitSessions ==
    [s \in SessionIds |->
        [student |-> "u1", tutor |-> "u2", status |-> "scheduled",
         total_amount |-> IF s = 1 THEN SessionTotal(2, 60)
                                   ELSE SessionTotal(2, 90)]]

(***************************************************************************)
(* Payment rows                                                            *)
(***************************************************************************)
NoMetadata == [plan |-> "", months |-> 0, phone_number |-> FALSE]

\* Payment.objects.create(...): status defaults to pending.
NewPayment(user, payment_type, amount, payment_method, session, metadata) ==
    [user |-> user, payment_type |-> payment_type, amount |-> amount,
     payment_method |-> payment_method, status |-> "pending",
     session |-> session, stripe_payment_intent_id |-> FALSE,
     gateway_response |-> "", metadata |-> metadata,
     completed_at |-> NULL, deleted |-> FALSE, resource |-> NULL]

\* Payment.objects.get(id=payment_id) finds a row.
PaymentExists(id) == id \in 1 .. Len(payments) /\ ~payments[id].deleted

PaymentIds == {id \in 1 .. Len(payments) : ~payments[id].deleted}

NoAudit == [effects |-> 0]

\* stripe.PaymentIntent.create: the gateway refuses an intent of no money.
GatewayAccepts(minor_units, gateway_ok) == gateway_ok /\ minor_units >= 1

(***************************************************************************)
(* Bounds of the payment model                                             *)
(***************************************************************************)
MaxPayments == 2      \* Payment rows created per run
MaxDeliveries == 3    \* gateway notifications delivered per run
MaxTime == 2          \* days the clock advances

(***************************************************************************)
(* PayForSessionView (payments/views.py)                                   *)
(***************************************************************************)
PaymentMethods == {"stripe", "wallet", "mtn_momo", "vodafone_cash", "paystack"}

\* process_stripe_payment: the payment row it saves.
process_stripe_payment(payment, gateway_ok) ==
    IF GatewayAccepts(payment.amount, gateway_ok)
    THEN [payment EXCEPT !.stripe_payment_intent_id = TRUE]
    ELSE [payment EXCEPT !.status = "failed"]

\* process_mobile_money_payment: the payment row it saves.
process_mobile_money_payment(payment) ==
    [payment EXCEPT !.status = "pending",
                    !.metadata = [NoMetadata EXCEPT !.phone_number = TRUE]]

\* process_wallet_payment: the payment row it saves last, the wallet after
\* the call, and whether the session row was saved as confirmed.
\* session_saved: payment.session.save() returned (TutoringSession.save
\* multiplies the stored Decimal rate by the float duration / 60, which
\* raises where the two types do not multiply; the view's except clause
\* then marks the payment failed).
process_wallet_payment(payment, user, session_saved) ==
    LET w == WalletOf(user)
        r == deduct_funds(w, payment.amount)
        unchanged == [balance |-> w.balance, tx |-> w.tx]
    IN  IF ~wallets[user].exists
        THEN \* request.user.wallet raises; caught by except Exception
             [payment |-> [payment EXCEPT !.status = "failed"],
              wallet |-> unchanged, confirmed |-> FALSE]
        ELSE IF has_sufficient_balance(w, payment.amount) /\ r.ok
        THEN [payment |-> [payment EXCEPT
                              !.status = IF session_saved THEN "completed"
                                                          ELSE "failed",
                              !.completed_at = now],
              wallet |-> [balance |-> r.balance, tx |-> r.tx],
              confirmed |-> session_saved]
        ELSE [payment |-> [payment EXCEPT !.status = "failed"],
              wallet |-> IF has_sufficient_balance(w, payment.amount)
                         THEN [balance |-> r.balance, tx |-> r.tx]
                         ELSE unchanged,
              confirmed |-> FALSE]

\* PayForSessionView.post
PayForSessionPost(user, session_id, payment_method, gateway_ok, session_saved) ==
    LET id == Len(payments) + 1
        created == NewPayment(user, "session",
                              sessions[session_id].total_amount,
                              payment_method, session_id, NoMetadata)
        viaWallet == process_wallet_payment(created, user, session_saved)
        saved == CASE payment_method = "stripe" ->
                        process_stripe_payment(created, gateway_ok)
                   [] payment_method = "wallet" -> viaWallet.payment
                   [] payment_method \in {"mtn_momo", "vodafone_cash"} ->
                        process_mobile_money_payment(created)
                   [] OTHER -> created
    IN  /\ Len(payments) < MaxPayments
        /\ payments' = Append(payments, saved)
        /\ intents' = IF saved.stripe_payment_intent_id
                      THEN intents \cup {id} ELSE intents
        /\ IF payment_method = "wallet"
           THEN /\ StoreWallet(user, viaWallet.wallet)
                /\ sessions' = IF viaWallet.confirmed
                               THEN [sessions EXCEPT
                                        ![session_id].status = "confirmed"]
                               ELSE sessions
                /\ audit' = Append(audit,
                               [effects |-> IF viaWallet.confirmed THEN 1 ELSE 0])
           ELSE /\ UNCHANGED <<wallets, walletTx, sessions>>
                /\ audit' = Append(audit, NoAudit)
        /\ UNCHANGED <<calls, subs, profiles, now, deliveries>>
        /\ UNCHANGED refundVars
        /\ UNCHANGED otherVars

(***************************************************************************)
(* SubscriptionView, WalletView (payments/views.py)                        *)
(***************************************************************************)
Plans == {"basic", "standard", "premium"}

\* plan_prices in SubscriptionView.post; amounts in 0.01 GHS.
plan_prices(plan) ==
    CASE plan = "basic" -> [amount |-> 5000, months |-> 1]
      [] plan = "standard" -> [amount |-> 12000, months |-> 3]
      [] plan = "premium" -> [amount |-> 20000, months |-> 6]

\* SubscriptionView.post
SubscriptionPost(user, plan, payment_method, gateway_ok) ==
    LET id == Len(payments) + 1
        created == NewPayment(user, "subscription", plan_prices(plan).amount,
                              payment_method, NULL,
                              [NoMetadata EXCEPT
                                  !.plan = plan,
                                  !.months = plan_prices(plan).months])
        accepted == GatewayAccepts(created.amount, gateway_ok)
    IN  /\ user \in Tutors
        /\ plan \in Plans
        /\ Len(payments) < MaxPayments
        /\ payments' = Append(payments,
               IF payment_method = "stripe" /\ ~accepted
               THEN [created EXCEPT !.deleted = TRUE]    \* payment.delete()
               ELSE created)
        /\ intents' = IF payment_method = "stripe" /\ accepted
                      THEN intents \cup {id} ELSE intents
        /\ audit' = Append(audit, NoAudit)
        /\ UNCHANGED <<wallets, walletTx, calls, sessions, subs, profiles,
                       now, deliveries>>
        /\ UNCHANGED refundVars
        /\ UNCHANGED otherVars

\* Amounts a top-up request can carry, in mills (0.001 GHS): the view reads
\* Decimal(request.POST['amount']), of any number of decimal places.
TopupInputs == {-10, 0, 4, 30}

\* WalletView.post with action = topup
WalletTopupPost(user, amount, payment_method, gateway_ok) ==
    LET id == Len(payments) + 1
        created == NewPayment(user, "wallet_topup",
                              QuantizeHalfEven(amount, 10),
                              payment_method, NULL, NoMetadata)
        accepted == GatewayAccepts(MinorUnitsOfMills(amount), gateway_ok)
    IN  /\ amount > 0
        /\ Len(payments) < MaxPayments
        /\ payments' = Append(payments,
               IF payment_method = "stripe" /\ ~accepted
               THEN [created EXCEPT !.deleted = TRUE]    \* payment.delete()
               ELSE created)
        /\ intents' = IF payment_method = "stripe" /\ accepted
                      THEN intents \cup {id} ELSE intents
        /\ audit' = Append(audit, NoAudit)
        /\ UNCHANGED <<wallets, walletTx, calls, sessions, subs, profiles,
                       now, deliveries>>
        /\ UNCHANGED refundVars
        /\ UNCHANGED otherVars

\* WalletView.get_context_data: Wallet.objects.get_or_create(user=...)
WalletViewGet(user) ==
    /\ ~wallets[user].exists
    /\ wallets' = [wallets EXCEPT ![user].exists = TRUE]
    /\ UNCHANGED <<walletTx, calls>>
    /\ UNCHANGED paymentVars
    /\ UNCHANGED otherVars

(***************************************************************************)
(* StripeWebhookView (payments/views.py)                                   *)
(***************************************************************************)
NoSubscription ==
    [exists |-> FALSE, plan |-> "", start_date |-> NULL, end_date |-> NULL,
     amount_paid |-> 0, status |-> "", payment |-> NULL]

NoProfileFlags == [subscription_active |-> FALSE, subscription_expiry |-> NULL]

Max(a, b) == IF a >= b THEN a ELSE b

create_tutor_subscription_from_now(subscription, payment, payment_id) ==
    LET months == payment.metadata.months
    IN  IF ~subscription.exists
        THEN [exists |-> TRUE, plan |-> payment.metadata.plan,
              start_date |-> now, end_date |-> now + 30 * months,
              amount_paid |-> payment.amount, status |-> "active",
              payment |-> payment_id]
        ELSE [subscription EXCEPT
                 !.plan = payment.metadata.plan,
                 !.end_date = now + 30 * months,
                 !.amount_paid = subscription.amount_paid + payment.amount,
                 !.status = "active"]

create_tutor_subscription_calendar_months(subscription, payment, payment_id) ==
    LET months == payment.metadata.months
    IN  IF ~subscription.exists
        THEN [exists |-> TRUE, plan |-> payment.metadata.plan,
              start_date |-> now, end_date |-> now + 31 * months,
              amount_paid |-> payment.amount, status |-> "active",
              payment |-> payment_id]
        ELSE [subscription EXCEPT
                 !.plan = payment.metadata.plan,
                 !.end_date = Max(subscription.end_date, now) + 30 * months,
                 !.amount_paid = subscription.amount_paid + payment.amount,
                 !.status = "active"]

\* create_tutor_subscription: the tutor's subscription row after the call
\* (get_or_create, then the update of an existing row).
create_tutor_subscription(subscription, payment, payment_id) ==
    LET plan == payment.metadata.plan
        months == payment.metadata.months
        start_date == now
        end_date == start_date + 30 * months
    IN  IF ~subscription.exists
        THEN [exists |-> TRUE, plan |-> plan, start_date |-> start_date,
              end_date |-> end_date, amount_paid |-> payment.amount,
              status |-> "active", payment |-> payment_id]
        ELSE [subscription EXCEPT
                 !.plan = plan,
                 !.end_date = Max(subscription.end_date, now) + 30 * months,
                 !.amount_paid = subscription.amount_paid + payment.amount,
                 !.status = "active"]

\* handle_payment_success: the payment row it saves.
CompletedPayment(payment) ==
    [payment EXCEPT !.status = "completed",
                    !.completed_at = now,
                    !.gateway_response = "succeeded"]

FailedPayment_to_pending(payment) ==
    [payment EXCEPT !.status = "pending", !.gateway_response = "failed"]

\* handle_payment_failure: the payment row it saves.
FailedPayment(payment) ==
    [payment EXCEPT !.status = "failed", !.gateway_response = "failed"]

\* A notification may name a payment this system does not hold.
ForeignPaymentId == 0

\* StripeWebhookView.post for payment_intent.succeeded: handle_payment_success
\* session_saved: payment.session.save() returned (see process_wallet_payment);
\* when it raises, the payment row is already saved and the session is not.
HandlePaymentSuccess(payment_id, session_saved) ==
    /\ deliveries < MaxDeliveries
    /\ deliveries' = deliveries + 1
    /\ IF PaymentExists(payment_id)
       THEN LET payment == CompletedPayment(payments[payment_id])
                user == payment.user
                credited == add_funds(WalletOf(user), payment.amount, "credit")
                applied ==
                    CASE payment.payment_type = "session"
                             /\ payment.session # NULL -> session_saved
                      [] payment.payment_type = "subscription" -> TRUE
                      [] payment.payment_type = "wallet_topup" -> credited.ok
                      [] OTHER -> FALSE
            IN  /\ payments' = [payments EXCEPT ![payment_id] = payment]
                /\ audit' = [audit EXCEPT
                                ![payment_id].effects =
                                    IF applied THEN @ + 1 ELSE @]
                /\ sessions' =
                       IF /\ payment.payment_type = "session"
                          /\ payment.session # NULL
                          /\ session_saved
                       THEN [sessions EXCEPT
                                ![payment.session].status = "confirmed"]
                       ELSE sessions
                /\ IF payment.payment_type = "subscription"
                   THEN LET subscription ==
                                create_tutor_subscription(subs[user], payment,
                                                          payment_id)
                        IN  /\ subs' = [subs EXCEPT ![user] = subscription]
                            /\ profiles' = [profiles EXCEPT ![user] =
                                   [subscription_active |-> TRUE,
                                    subscription_expiry |->
                                        subscription.end_date]]
                   ELSE UNCHANGED <<subs, profiles>>
                /\ IF payment.payment_type = "wallet_topup"
                   THEN /\ wallets' = [wallets EXCEPT ![user] =
                               [exists |-> TRUE, balance |-> credited.balance]]
                        /\ walletTx' = [walletTx EXCEPT ![user] = credited.tx]
                   ELSE UNCHANGED <<wallets, walletTx>>
       ELSE UNCHANGED <<payments, audit, sessions, subs, profiles, wallets,
                        walletTx>>
    /\ UNCHANGED <<calls, intents, now>>
    /\ UNCHANGED refundVars
    /\ UNCHANGED otherVars

\* StripeWebhookView.post for payment_intent.payment_failed:
\* handle_payment_failure
HandlePaymentFailure(payment_id) ==
    /\ deliveries < MaxDeliveries
    /\ deliveries' = deliveries + 1
    /\ payments' = IF PaymentExists(payment_id)
                   THEN [payments EXCEPT
                            ![payment_id] = FailedPayment(payments[payment_id])]
                   ELSE payments
    /\ UNCHANGED <<wallets, walletTx, calls, intents, sessions, subs,
                   profiles, now, audit>>
    /\ UNCHANGED refundVars
    /\ UNCHANGED otherVars

\* Time passes.
Tick ==
    /\ now < MaxTime
    /\ now' = now + 1
    /\ UNCHANGED <<wallets, walletTx, calls, payments, intents, sessions,
                   subs, profiles, deliveries, audit>>
    /\ UNCHANGED refundVars
    /\ UNCHANGED otherVars

MaxMonths == 2        \* 30-day periods the clock advances

\* Time passes, a subscription period at a time.
TickMonth ==
    /\ now + 30 <= 30 * MaxMonths
    /\ now' = now + 30
    /\ UNCHANGED <<wallets, walletTx, calls, payments, intents, sessions,
                   subs, profiles, deliveries, audit>>
    /\ UNCHANGED refundVars
    /\ UNCHANGED otherVars

(***************************************************************************)
(* Refund requests: RequestRefundView (payments/views.py) and              *)
(* RefundRequestForm (payments/forms.py)                                   *)
(***************************************************************************)
MaxRefundAmount == 4  \* largest amount typed into the refund form
MaxRequests == 2      \* refund requests recorded per run

PaymentStatuses == {"pending", "processing", "completed", "failed",
                    "cancelled", "refunded", "partially_refunded"}

\* The amount field of the form: left blank (None) or a number of 0.01 GHS.
RefundAmountInputs == {NULL} \cup (0 .. MaxRefundAmount)

\* A Refund row as the form saves it; status takes the model default.
NewRefund(payment_id, amount) ==
    [payment |-> payment_id, amount |-> amount, status |-> "requested"]

\* hasattr(payment, 'refund'): the reverse side of the OneToOneField.
HasRefund(rows, payment_id) ==
    \E i \in 1 .. Len(rows) : rows[i].payment = payment_id

form_valid_any_status(rows, payment, payment_id, amount) ==
    IF HasRefund(rows, payment_id)
    THEN rows
    ELSE Append(rows, NewRefund(payment_id,
                   IF amount = NULL \/ amount = 0 THEN payment.amount
                   ELSE amount))

form_valid_no_refund_check(rows, payment, payment_id, amount) ==
    IF payment.status # "completed"
    THEN rows
    ELSE Append(rows, NewRefund(payment_id,
                   IF amount = NULL \/ amount = 0 THEN payment.amount
                   ELSE amount))

form_valid_blank_is_zero(rows, payment, payment_id, amount) ==
    IF payment.status # "completed" \/ HasRefund(rows, payment_id)
    THEN rows
    ELSE Append(rows, NewRefund(payment_id,
                   IF amount = NULL THEN 0 ELSE amount))

\* RequestRefundView.form_valid once the Payment is found: the Refund table
\* it leaves.  "not form.instance.amount" holds for None and for 0.
form_valid(rows, payment, payment_id, amount) ==
    IF payment.status # "completed"
    THEN rows
    ELSE IF HasRefund(rows, payment_id)
    THEN rows
    ELSE Append(rows, NewRefund(payment_id,
                   IF amount = NULL \/ amount = 0 THEN payment.amount
                   ELSE amount))

\* POST to RequestRefundView with a valid form.  get_object_or_404 answers
\* 404 unless the Payment exists and belongs to the requesting user.
RequestRefund(user, payment_id, amount) ==
    /\ Len(refundRequests) < MaxRequests
    /\ PaymentExists(payment_id)
    /\ payments[payment_id].user = user
    /\ refunds' = form_valid(refunds, payments[payment_id], payment_id, amount)
    /\ refundRequests' = Append(refundRequests,
           [payment |-> payment_id, amount |-> amount,
            refunds_before |-> refunds])
    /\ UNCHANGED <<wallets, walletTx, calls, payments, intents, sessions,
                   subs, profiles, now, deliveries, audit>>
    /\ UNCHANGED otherVars

\* POST to RequestRefundView that ends in 404.
RequestRefundNotFound(user, payment_id) ==
    /\ ~(PaymentExists(payment_id) /\ payments[payment_id].user = user)
    /\ UNCHANGED vars

(***************************************************************************)
(* Concurrent requests on one wallet (payments/models.py)                  *)
(* A request loads the Wallet row into an instance, and the method then    *)
(* checks and changes the instance and saves it, with no lock, no          *)
(* transaction and no F() expression between the read and the write.       *)
(***************************************************************************)
Requests == {"r1", "r2"}

Idle == [pc |-> "idle", op |-> "", user |-> "", amount |-> 0, balance |-> 0]

InFlight == {r \in Requests : inflight[r].pc # "idle"}

\* The request reads the wallet row: request.user.wallet / get_or_create.
LoadWallet(r, u, op, amount) ==
    /\ inflight[r].pc = "idle"
    /\ wallets[u].exists
    /\ Len(calls) + Cardinality(InFlight) < MaxCalls
    /\ inflight' = [inflight EXCEPT ![r] =
           [pc |-> "loaded", op |-> op, user |-> u, amount |-> amount,
            balance |-> wallets[u].balance]]
    /\ UNCHANGED <<wallets, walletTx, calls, paymentMethods, invoices,
                   packages, downloads>>
    /\ UNCHANGED <<payments, intents, sessions, subs, profiles, now,
                   deliveries, audit, refunds, refundRequests>>

\* The method runs on the loaded instance: the check and the new balance come
\* from the instance, self.save() writes that balance to the row, and the
\* WalletTransaction row is added to the table as it is now.
RunWalletMethod(r) ==
    LET q == inflight[r]
        u == q.user
        w == [balance |-> q.balance, tx |-> walletTx[u]]
        res == IF q.op = "add_funds"
               THEN add_funds(w, q.amount, "credit")
               ELSE deduct_funds(w, q.amount)
    IN  /\ q.pc = "loaded"
        /\ res.balance <= MaxBalance
        /\ IF res.ok THEN StoreWallet(u, res)
                     ELSE UNCHANGED <<wallets, walletTx>>
        /\ calls' = Append(calls, Call(q.op, u, q.amount, w, res))
        /\ inflight' = [inflight EXCEPT ![r] = Idle]
        /\ UNCHANGED <<paymentMethods, invoices, packages, downloads>>
        /\ UNCHANGED <<payments, intents, sessions, subs, profiles, now,
                       deliveries, audit, refunds, refundRequests>>

(***************************************************************************)
(* Resource downloads: download_resource (resources/views.py)              *)
(***************************************************************************)
MaxDownloads == 2     \* download requests recorded per run

AnonymousUser == "anonymous"

\* The Resource rows: pk -> is_free, is_approved.
Resources ==
    << [is_free |-> TRUE, is_approved |-> TRUE],
       [is_free |-> FALSE, is_approved |-> TRUE],
       [is_free |-> FALSE, is_approved |-> FALSE],
       [is_free |-> TRUE, is_approved |-> FALSE] >>

ResourceIds == 1 .. Len(Resources)

NoDownloads ==
    [rows |-> {}, download_count |-> [pk \in ResourceIds |-> 0], log |-> <<>>]

has_purchased_any_status(user, pk) ==
    \E p \in PaymentIds : /\ payments[p].user = user
                          /\ payments[p].resource = pk

\* Payment.objects.filter(user=..., resource=..., status='completed').exists()
has_purchased(user, pk) ==
    \E p \in PaymentIds : /\ payments[p].user = user
                          /\ payments[p].resource = pk
                          /\ payments[p].status = "completed"

\* What download_resource answers: the file, or why not.
download_response(user, pk) ==
    IF user = AnonymousUser THEN "login"
    ELSE IF ~Resources[pk].is_approved THEN "not_found"
    ELSE IF ~Resources[pk].is_free /\ ~has_purchased(user, pk) THEN "purchase_first"
    ELSE "file"

\* download_resource: the download is recorded (get_or_create) and counted
\* once per user and resource before the file is served.
DownloadResource(user, pk) ==
    LET response == download_response(user, pk)
        created == <<user, pk>> \notin downloads.rows
    IN  /\ Len(downloads.log) < MaxDownloads
        /\ downloads' =
              [rows |-> IF response = "file"
                        THEN downloads.rows \cup {<<user, pk>>}
                        ELSE downloads.rows,
               download_count |->
                   IF response = "file" /\ created
                   THEN [downloads.download_count EXCEPT ![pk] = @ + 1]
                   ELSE downloads.download_count,
               log |-> Append(downloads.log,
                          [user |-> user, resource |-> pk,
                           response |-> response])]
        /\ UNCHANGED <<wallets, walletTx, calls, inflight, paymentMethods,
                       invoices, packages>>
        /\ UNCHANGED <<payments, intents, sessions, subs, profiles, now,
                       deliveries, audit, refunds, refundRequests>>

(***************************************************************************)
(* PaymentMethod (payments/models.py)                                      *)
(***************************************************************************)
MaxMethods == 4       \* PaymentMethod rows created per run

\* The table with the instance written at pk (a new row when pk is new).
WriteRow(rows, pk, row) ==
    IF pk \in 1 .. Len(rows) THEN [rows EXCEPT ![pk] = row]
    ELSE Append(rows, row)

PaymentMethod_save_without_update(rows, pk, user, is_default) ==
    WriteRow(rows, pk,
             [user |-> user, is_default |-> is_default, displaced |-> FALSE])

\* PaymentMethod.save of the instance with primary key pk: when the instance
\* is the default, filter(user=..., is_default=True).update(is_default=False)
\* runs first, then the instance is written.  displaced is history: the row
\* lost its default flag to that update.
PaymentMethod_save(rows, pk, user, is_default) ==
    LET cleared ==
            [i \in 1 .. Len(rows) |->
                IF is_default /\ rows[i].user = user /\ rows[i].is_default
                THEN [rows[i] EXCEPT !.is_default = FALSE,
                                     !.displaced = (i # pk)]
                ELSE rows[i]]
    IN  WriteRow(cleared, pk,
                 [user |-> user, is_default |-> is_default,
                  displaced |-> IF pk \in 1 .. Len(rows)
                                THEN cleared[pk].displaced /\ ~is_default
                                ELSE FALSE])

\* A new PaymentMethod is saved.
CreatePaymentMethod(user, is_default) ==
    /\ Len(paymentMethods) < MaxMethods
    /\ paymentMethods' = PaymentMethod_save(paymentMethods,
                             Len(paymentMethods) + 1, user, is_default)
    /\ UNCHANGED <<wallets, walletTx, calls, inflight, invoices, packages,
                   downloads>>
    /\ UNCHANGED <<payments, intents, sessions, subs, profiles, now,
                   deliveries, audit, refunds, refundRequests>>

\* An existing PaymentMethod is saved with is_default set or cleared.
UpdatePaymentMethod(pk, is_default) ==
    /\ pk \in 1 .. Len(paymentMethods)
    /\ paymentMethods' = PaymentMethod_save(paymentMethods, pk,
                             paymentMethods[pk].user, is_default)
    /\ UNCHANGED <<wallets, walletTx, calls, inflight, invoices, packages,
                   downloads>>
    /\ UNCHANGED <<payments, intents, sessions, subs, profiles, now,
                   deliveries, audit, refunds, refundRequests>>

(***************************************************************************)
(* session_update_status (tutoring/views.py)                               *)
(***************************************************************************)
Staff == {}               \* CustomUser.is_staff

StatusActions == {"start", "complete", "cancel", "other"}

\* The status session_update_status sets for an action; any other action
\* leaves the status as it is.
StatusAfter(status, action) ==
    CASE action = "start" -> "in_progress"
      [] action = "complete" -> "completed"
      [] action = "cancel" -> "cancelled"
      [] OTHER -> status

\* session_update_status: only the session's tutor or staff; session_saved
\* tells whether session.save() returned (see process_wallet_payment).
SessionUpdateStatus(user, pk, action, session_saved) ==
    /\ pk \in SessionIds
    /\ user \in {sessions[pk].tutor} \cup Staff
    /\ session_saved
    /\ sessions' = [sessions EXCEPT
                       ![pk].status = StatusAfter(sessions[pk].status, action)]
    /\ UNCHANGED <<wallets, walletTx, calls, payments, intents, subs,
                   profiles, now, deliveries, audit>>
    /\ UNCHANGED refundVars
    /\ UNCHANGED otherVars

(***************************************************************************)
(* Invoice (payments/models.py)                                            *)
(* An invoice number is "INV" + the day + a counter; all invoices of the   *)
(* model are made on one day, so a number is known by its counter part,    *)
(* kept as the integer whose decimal digits (zero-filled) are printed.     *)
(***************************************************************************)
MaxInvoices == 1001   \* Invoice.save calls per run

SuffixWidth == 3      \* zfill(3) and invoice_number[-3:]

RECURSIVE Digits(_)
\* str(n): the decimal digits of n.
Digits(n) == IF n < 10 THEN <<n>> ELSE Append(Digits(n \div 10), n % 10)

\* str(n).zfill(3)
Suffix(n) ==
    LET d == Digits(n)
    IN  IF Len(d) >= SuffixWidth THEN d
        ELSE [i \in 1 .. SuffixWidth |->
                 IF i <= SuffixWidth - Len(d) THEN 0
                 ELSE d[i - (SuffixWidth - Len(d))]]

\* a sorts before b as character strings (order_by on a CharField).
StringLess(a, b) ==
    \E k \in 1 .. Len(b) :
        /\ \A i \in 1 .. (k - 1) : i <= Len(a) /\ a[i] = b[i]
        /\ (k > Len(a) \/ a[k] < b[k])

\* The Invoice table: the numbers generated so far, each with whether its
\* row was stored, and the entry the index on invoice_number puts last in
\* string order (NULL for an empty table).
NoInvoices == [rows |-> <<>>, last |-> NULL]

\* The counters of the Invoice rows in the table.
StoredNumbers(table) ==
    {table.rows[i].invoice_number :
        i \in {j \in 1 .. Len(table.rows) : table.rows[j].stored}}

\* filter(invoice_number__startswith=...).order_by('-invoice_number').first()
last_invoice(table) == table.last

\* int(last_invoice.invoice_number[-3:]) + 1, or 1 for the first of the day
new_number(table) ==
    LET last == last_invoice(table)
    IN  IF last = NULL THEN 1 ELSE (last % (10 ^ SuffixWidth)) + 1

\* Invoice.save of a new invoice without a number: the number is generated
\* and the row inserted; invoice_number is unique, so the insert of a number
\* already in the table raises IntegrityError and stores nothing.
InvoiceSave ==
    LET n == new_number(invoices)
        stored == n \notin StoredNumbers(invoices)
    IN  /\ Len(invoices.rows) < MaxInvoices
        /\ invoices' =
              [rows |-> Append(invoices.rows,
                               [invoice_number |-> n, stored |-> stored]),
               last |-> IF ~stored THEN invoices.last
                        ELSE IF invoices.last = NULL THEN n
                        ELSE IF StringLess(Suffix(invoices.last), Suffix(n))
                        THEN n
                        ELSE invoices.last]
        /\ UNCHANGED <<wallets, walletTx, calls, inflight, paymentMethods,
                       packages, downloads>>
        /\ UNCHANGED <<payments, intents, sessions, subs, profiles, now,
                       deliveries, audit, refunds, refundRequests>>

(***************************************************************************)
(* PurchasedPackage (payments/models.py)                                   *)
(***************************************************************************)
MaxSessions == 2      \* sessions in a purchased package
MaxUses == 3          \* use_session calls recorded per package

PackageIds == {1, 2}

\* A PurchasedPackage row as it is bought.  calls and returned are history:
\* the use_session calls made on the row and what the last one returned.
NewPackage(sessions_remaining, expires_at) ==
    [sessions_remaining |-> sessions_remaining, expires_at |-> expires_at,
     is_active |-> TRUE, calls |-> 0, returned |-> FALSE]

\* PurchasedPackage.is_expired
is_expired(package) == now > package.expires_at

use_session_ignores_expiry(package) ==
    IF package.sessions_remaining > 0
    THEN [package EXCEPT
             !.sessions_remaining = @ - 1,
             !.is_active = IF package.sessions_remaining - 1 = 0
                           THEN FALSE ELSE @,
             !.returned = TRUE]
    ELSE [package EXCEPT !.returned = FALSE]

\* PurchasedPackage.use_session: the row after the call, with what it returned
use_session(package) ==
    IF package.sessions_remaining > 0 /\ ~is_expired(package)
    THEN [package EXCEPT
             !.sessions_remaining = @ - 1,
             !.is_active = IF package.sessions_remaining - 1 = 0
                           THEN FALSE ELSE @,
             !.returned = TRUE]
    ELSE [package EXCEPT !.returned = FALSE]

\* package.use_session() called on the row pk
UseSession(pk) ==
    /\ pk \in 1 .. Len(packages)
    /\ packages[pk].calls < MaxUses
    /\ packages' = [packages EXCEPT
                       ![pk] = [use_session(packages[pk]) EXCEPT
                                   !.calls = @ + 1]]
    /\ UNCHANGED <<wallets, walletTx, calls, inflight, paymentMethods,
                   invoices, downloads>>
    /\ UNCHANGED <<payments, intents, sessions, subs, profiles, now,
                   deliveries, audit, refunds, refundRequests>>

(***************************************************************************)
(* Specifications                                                          *)
(***************************************************************************)
\* No request in flight and the other tables empty.
NoOther ==
    /\ inflight = [r \in Requests |-> Idle]
    /\ paymentMethods = <<>>
    /\ invoices = NoInvoices
    /\ packages = <<>>
    /\ downloads = NoDownloads

NoPayments ==
    /\ payments = <<>>
    /\ intents = {}
    /\ audit = <<>>
    /\ sessions = InitSessions
    /\ subs = [u \in Tutors |-> NoSubscription]
    /\ profiles = [u \in Tutors |-> NoProfileFlags]
    /\ now = 0
    /\ deliveries = 0
    /\ refunds = <<>>
    /\ refundRequests = <<>>
    /\ NoOther

\* The site before any purchase: no wallet has been opened yet.
Init ==
    /\ wallets = [u \in Users |-> [exists |-> FALSE, balance |-> 0]]
    /\ walletTx = [u \in Users |-> <<>>]
    /\ calls = <<>>
    /\ NoPayments

Next ==
    \/ \E u \in Users, s \in SessionIds, m \in PaymentMethods,
          g \in BOOLEAN, sv \in BOOLEAN : PayForSessionPost(u, s, m, g, sv)
    \/ \E u \in Users, pl \in Plans, m \in PaymentMethods, g \in BOOLEAN :
          SubscriptionPost(u, pl, m, g)
    \/ \E u \in Users, a \in TopupInputs, m \in PaymentMethods,
          g \in BOOLEAN : WalletTopupPost(u, a, m, g)
    \/ \E u \in Users : WalletViewGet(u)
    \/ \E p \in intents \cup {ForeignPaymentId}, sv \in BOOLEAN :
          HandlePaymentSuccess(p, sv)
    \/ \E p \in intents \cup {ForeignPaymentId} : HandlePaymentFailure(p)
    \/ Tick

Spec == Init /\ [][Next]_vars

\* The wallet methods called one at a time on opened, empty wallets.
InitWallet ==
    /\ wallets = [u \in Users |-> [exists |-> TRUE, balance |-> 0]]
    /\ walletTx = [u \in Users |-> <<>>]
    /\ calls = <<>>
    /\ NoPayments

NextWallet ==
    \/ \E u \in Users, a \in AmountInputs : AddFunds(u, a)
    \/ \E u \in Users, a \in AmountInputs : DeductFunds(u, a)

SpecWallet == InitWallet /\ [][NextWallet]_vars

\* Session purchases, gateway notifications and the tutor's status updates.
NextSession ==
    \/ \E u \in Users, s \in SessionIds, m \in PaymentMethods,
          g \in BOOLEAN, sv \in BOOLEAN : PayForSessionPost(u, s, m, g, sv)
    \/ \E p \in intents \cup {ForeignPaymentId}, sv \in BOOLEAN :
          HandlePaymentSuccess(p, sv)
    \/ \E u \in Users, s \in SessionIds, a \in StatusActions,
          sv \in BOOLEAN : SessionUpdateStatus(u, s, a, sv)

SpecSession == Init /\ [][NextSession]_vars

\* Invoices created one after the other on one day.
NextInvoice == InvoiceSave

SpecInvoice == Init /\ [][NextInvoice]_vars

\* Two purchased packages, of any size and expiring on any day of the run.
InitPackage ==
    /\ wallets = [u \in Users |-> [exists |-> FALSE, balance |-> 0]]
    /\ walletTx = [u \in Users |-> <<>>]
    /\ calls = <<>>
    /\ payments = <<>>
    /\ intents = {}
    /\ audit = <<>>
    /\ sessions = InitSessions
    /\ subs = [u \in Tutors |-> NoSubscription]
    /\ profiles = [u \in Tutors |-> NoProfileFlags]
    /\ now = 0
    /\ deliveries = 0
    /\ refunds = <<>>
    /\ refundRequests = <<>>
    /\ inflight = [r \in Requests |-> Idle]
    /\ paymentMethods = <<>>
    /\ invoices = NoInvoices
    /\ downloads = NoDownloads
    /\ \E n1, n2 \in 1 .. MaxSessions, e1, e2 \in 0 .. MaxTime :
          packages = <<NewPackage(n1, e1), NewPackage(n2, e2)>>

NextPackage ==
    \/ \E pk \in PackageIds : UseSession(pk)
    \/ Tick

SpecPackage == InitPackage /\ [][NextPackage]_vars

\* PaymentMethod rows saved one after the other.
NextPaymentMethod ==
    \/ \E u \in Users, d \in BOOLEAN : CreatePaymentMethod(u, d)
    \/ \E pk \in 1 .. MaxMethods, d \in BOOLEAN : UpdatePaymentMethod(pk, d)

SpecPaymentMethod == Init /\ [][NextPaymentMethod]_vars

\* Requests that use a wallet at the same time.
NextConcurrent ==
    \/ \E r \in Requests, u \in Users, a \in 1 .. MaxAmount,
          op \in {"add_funds", "deduct_funds"} : LoadWallet(r, u, op, a)
    \/ \E r \in Requests : RunWalletMethod(r)

SpecConcurrent == InitWallet /\ [][NextConcurrent]_vars

\* Tutor subscriptions: purchase, gateway notifications and the clock.
NextSubscription ==
    \/ \E u \in Users, pl \in Plans, m \in PaymentMethods, g \in BOOLEAN :
          SubscriptionPost(u, pl, m, g)
    \/ \E p \in intents \cup {ForeignPaymentId} : HandlePaymentSuccess(p, TRUE)
    \/ \E p \in intents \cup {ForeignPaymentId} : HandlePaymentFailure(p)
    \/ TickMonth

SpecSubscription == Init /\ [][NextSubscription]_vars

\* Payment rows in any status a row can hold: one session purchase of u1
\* and one wallet top-up of u2.
PaymentInStatus(payment, status) ==
    [payment EXCEPT !.status = status,
                    !.completed_at = IF status = "completed" THEN 0 ELSE NULL]

InitRefund ==
    /\ wallets = [u \in Users |-> [exists |-> FALSE, balance |-> 0]]
    /\ walletTx = [u \in Users |-> <<>>]
    /\ calls = <<>>
    /\ \E s1 \in PaymentStatuses, s2 \in PaymentStatuses :
          payments =
             << PaymentInStatus(
                    NewPayment("u1", "session", InitSessions[1].total_amount,
                               "mtn_momo", 1, NoMetadata), s1),
                PaymentInStatus(
                    NewPayment("u2", "wallet_topup", MinorUnitsOfMills(30),
                               "paystack", NULL, NoMetadata), s2) >>
    /\ intents = {}
    /\ audit = <<NoAudit, NoAudit>>
    /\ sessions = InitSessions
    /\ subs = [u \in Tutors |-> NoSubscription]
    /\ profiles = [u \in Tutors |-> NoProfileFlags]
    /\ now = 0
    /\ deliveries = 0
    /\ refunds = <<>>
    /\ refundRequests = <<>>
    /\ NoOther

\* Payment rows for resources in any status a row can hold: u1 bought the
\* approved priced resource, u2 the priced resource that is not approved.
InitResource ==
    /\ wallets = [u \in Users |-> [exists |-> FALSE, balance |-> 0]]
    /\ walletTx = [u \in Users |-> <<>>]
    /\ calls = <<>>
    /\ \E s1 \in PaymentStatuses, s2 \in PaymentStatuses :
          payments =
             << [PaymentInStatus(
                    NewPayment("u1", "resource", MinorUnitsOfMills(30),
                               "paystack", NULL, NoMetadata), s1)
                    EXCEPT !.resource = 2],
                [PaymentInStatus(
                    NewPayment("u2", "resource", MinorUnitsOfMills(30),
                               "paystack", NULL, NoMetadata), s2)
                    EXCEPT !.resource = 3] >>
    /\ intents = {}
    /\ audit = <<NoAudit, NoAudit>>
    /\ sessions = InitSessions
    /\ subs = [u \in Tutors |-> NoSubscription]
    /\ profiles = [u \in Tutors |-> NoProfileFlags]
    /\ now = 0
    /\ deliveries = 0
    /\ refunds = <<>>
    /\ refundRequests = <<>>
    /\ NoOther

NextResource ==
    \E u \in Users \cup {AnonymousUser}, pk \in ResourceIds :
        DownloadResource(u, pk)

SpecResource == InitResource /\ [][NextResource]_vars

NextRefund ==
    \/ \E u \in Users, p \in 1 .. Len(payments), a \in RefundAmountInputs :
          RequestRefund(u, p, a)
    \/ \E u \in Users, p \in (1 .. Len(payments)) \cup {ForeignPaymentId} :
          RequestRefundNotFound(u, p)

SpecRefund == InitRefund /\ [][NextRefund]_vars

(***************************************************************************)
(* Wallet claims, checked under SpecWallet                                 *)
(***************************************************************************)
LastCall == calls[Len(calls)]

OkCalls(u) ==
    Cardinality({i \in 1 .. Len(calls) : calls[i].user = u /\ calls[i].ok})

\* C1: after any sequence of add_funds and deduct_funds calls made one at a
\* time on wallets that start at a balance >= 0, every balance is >= 0.
C1_BalanceNeverNegative == \A u \in Users : wallets[u].balance >= 0

\* A wallet emptied by a successful debit on which a further debit was then
\* attempted.
C1_Witness ==
    /\ Len(calls) >= 3
    /\ LastCall.op = "deduct_funds"
    /\ LastCall.amount > 0
    /\ LastCall.balance_before = 0
    /\ calls[Len(calls) - 1].op = "deduct_funds"
    /\ calls[Len(calls) - 1].ok
    /\ calls[Len(calls) - 1].user = LastCall.user

\* C2: deduct_funds(amount) returns False whenever amount <= 0 or amount is
\* more than the balance, and then the balance and the transaction rows are
\* what they were before the call.
C2_FailedDebitChangesNothing ==
    (calls # <<>> /\ LastCall.op = "deduct_funds"
        /\ (LastCall.amount <= 0 \/ LastCall.amount > LastCall.balance_before))
    => /\ ~LastCall.ok
       /\ wallets[LastCall.user].balance = LastCall.balance_before
       /\ walletTx[LastCall.user] = LastCall.rows_before

\* A debit of more than a non-zero balance has just been refused.
C2_Witness ==
    /\ calls # <<>>
    /\ LastCall.op = "deduct_funds"
    /\ LastCall.balance_before > 0
    /\ LastCall.amount > LastCall.balance_before
    /\ ~LastCall.ok

\* C3: add_funds(amount) returns False exactly when amount <= 0; a failed
\* call leaves balance and rows as they were, a successful one raises the
\* balance by amount and appends one credit row carrying the new balance.
C3_CreditContract ==
    (calls # <<>> /\ LastCall.op = "add_funds")
    => LET u == LastCall.user
       IN  /\ LastCall.ok <=> LastCall.amount > 0
           /\ ~LastCall.ok =>
                 /\ wallets[u].balance = LastCall.balance_before
                 /\ walletTx[u] = LastCall.rows_before
           /\ LastCall.ok =>
                 /\ wallets[u].balance = LastCall.balance_before + LastCall.amount
                 /\ walletTx[u] =
                        Append(LastCall.rows_before,
                               WalletTransaction("credit", LastCall.amount,
                                                 wallets[u].balance))

\* A credit onto a wallet that already held money and rows, after a refused
\* credit of a non-positive amount.
C3_Witness ==
    /\ Len(calls) >= 3
    /\ LastCall.op = "add_funds"
    /\ LastCall.ok
    /\ LastCall.balance_before > 0
    /\ \E i \in 1 .. Len(calls) :
          calls[i].op = "add_funds" /\ calls[i].amount <= 0 /\ ~calls[i].ok

\* C4: every change of a balance comes with exactly one appended row whose
\* amount is the change and whose balance_after is the new balance; rows are
\* as many as the successful calls; no row is changed or removed.
C4_OneRowPerChange ==
    /\ [](\A u \in Users : Len(walletTx[u]) = OkCalls(u))
    /\ [][\A u \in Users :
            LET old == walletTx[u]
                new == walletTx'[u]
                delta == wallets'[u].balance - wallets[u].balance
            IN  /\ Len(new) >= Len(old)
                /\ SubSeq(new, 1, Len(old)) = old
                /\ (delta # 0) <=> (Len(new) = Len(old) + 1)
                /\ Len(new) <= Len(old) + 1
                /\ Len(new) = Len(old) + 1 =>
                      /\ new[Len(new)].amount = IF delta >= 0 THEN delta
                                                              ELSE -delta
                      /\ new[Len(new)].balance_after = wallets'[u].balance
                      /\ new[Len(new)].transaction_type =
                            IF delta >= 0 THEN "credit" ELSE "debit"]_vars

\* A wallet holding a credit row and a debit row after three calls, one of
\* them refused.
C4_Witness ==
    \E u \in Users :
        /\ Len(walletTx[u]) = 2
        /\ walletTx[u][1].transaction_type = "credit"
        /\ walletTx[u][2].transaction_type = "debit"
        /\ Len(calls) = 3
        /\ \E i \in 1 .. 3 : ~calls[i].ok

\* The last two calls were deduct_funds(amount) and then add_funds(amount)
\* on the same wallet.
DebitThenCredit ==
    /\ Len(calls) >= 2
    /\ calls[Len(calls) - 1].op = "deduct_funds"
    /\ LastCall.op = "add_funds"
    /\ LastCall.user = calls[Len(calls) - 1].user
    /\ LastCall.amount = calls[Len(calls) - 1].amount
    /\ LastCall.amount > 0

RoundTripRestores ==
    LET debit == calls[Len(calls) - 1]
    IN  /\ wallets[debit.user].balance = debit.balance_before
        /\ Len(walletTx[debit.user]) = Len(debit.rows_before) + 2

\* C5 as stated: for every amount > 0, deduct_funds(amount) followed at once
\* by add_funds(amount) restores the balance and appends exactly two rows.
C5_RoundTripAnyAmount == DebitThenCredit => RoundTripRestores

\* C5 as amended: for every amount with 0 < amount <= balance,
\* deduct_funds(amount) followed at once by add_funds(amount) restores the
\* balance and appends exactly two rows.
C5_RoundTripCoveredAmount ==
    (DebitThenCredit
        /\ LastCall.amount <= calls[Len(calls) - 1].balance_before)
    => RoundTripRestores

\* A round trip of a covered amount has just been made.
C5_Witness ==
    /\ DebitThenCredit
    /\ calls[Len(calls) - 1].ok
    /\ LastCall.ok
    /\ calls[Len(calls) - 1].balance_before > LastCall.amount

(***************************************************************************)
(* Payment lifecycle claims, checked under Spec                            *)
(***************************************************************************)

\* C6: payment completion is idempotent: however often the gateway delivers
\* payment_intent.succeeded for a Payment, the side effect of its type
\* (session confirmed, subscription activated, wallet credited by
\* payment.amount) is applied once.
C6_CompletionIdempotent ==
    \A p \in 1 .. Len(audit) : audit[p].effects <= 1

\* C7: a notification for a Payment already completed or failed is ignored:
\* no step moves a completed Payment to failed or a failed Payment to
\* completed.
C7_TerminalNotificationsIgnored ==
    [][\A p \in 1 .. Len(payments) :
          /\ payments[p].status = "completed" => payments'[p].status # "failed"
          /\ payments[p].status = "failed" => payments'[p].status # "completed"
      ]_vars

\* C8: once the status of a Payment is no longer pending, no step of the
\* payment views or of the webhook makes it pending again.
C8_PendingNeverReentered ==
    [][\A p \in 1 .. Len(payments) :
          payments[p].status # "pending" => payments'[p].status # "pending"
      ]_vars

\* A Payment completed and then failed by notifications, and a mobile money
\* payment (the code that assigns pending) made after it was created.
C8_Witness ==
    \E p, q \in 1 .. Len(payments) :
        /\ p < q
        /\ payments[p].status = "failed"
        /\ payments[p].completed_at # NULL
        /\ payments[p].gateway_response = "failed"
        /\ payments[q].metadata.phone_number
        /\ payments[q].status = "pending"

\* C9: completed_at of a Payment, once set, never changes its value.
C9_CompletedAtSetOnce ==
    [][\A p \in 1 .. Len(payments) :
          payments[p].completed_at # NULL
          => payments'[p].completed_at = payments[p].completed_at
      ]_vars

\* C10: every Payment row held has amount > 0: a purchase of a non-positive
\* amount persists no Payment.
C10_PersistedAmountsPositive ==
    \A p \in PaymentIds : payments[p].amount > 0

\* C11: a Payment row is never deleted: when the gateway refuses the charge
\* intent of a purchase, its Payment stays, with status failed.
C11_PaymentsNeverDeleted ==
    \A p \in 1 .. Len(payments) : ~payments[p].deleted

\* The step is a PayForSessionView.post with payment_method = wallet.
WalletSessionPaymentStep ==
    /\ Len(payments') = Len(payments) + 1
    /\ payments'[Len(payments')].payment_type = "session"
    /\ payments'[Len(payments')].payment_method = "wallet"

\* C12: a wallet-funded session payment is resolved within its request: when
\* the balance covers payment.amount the wallet is debited by exactly that
\* amount, the Payment is completed and the session confirmed; otherwise the
\* Payment is failed and the wallet and its rows are unchanged.
C12_WalletPaymentResolved ==
    [][WalletSessionPaymentStep =>
          LET payment == payments'[Len(payments')]
              u == payment.user
              covered == /\ wallets[u].exists
                         /\ wallets[u].balance >= payment.amount
          IN  /\ covered =>
                    /\ payment.status = "completed"
                    /\ wallets'[u].balance = wallets[u].balance - payment.amount
                    /\ Len(walletTx'[u]) = Len(walletTx[u]) + 1
                    /\ sessions'[payment.session].status = "confirmed"
              /\ ~covered =>
                    /\ payment.status = "failed"
                    /\ wallets'[u] = wallets[u]
                    /\ walletTx'[u] = walletTx[u]
      ]_vars

(***************************************************************************)
(* Refund requests                                                         *)
(***************************************************************************)
\* The step is a refund request that found its Payment.
RefundRequestStep == Len(refundRequests') = Len(refundRequests) + 1

LastRefundRequest == refundRequests'[Len(refundRequests')]

AllButRefunds == <<wallets, walletTx, calls, payments, intents, sessions,
                   subs, profiles, now, deliveries, audit>>

\* C13: a Refund is created only for a Payment whose status is completed at
\* the time of the request; a request against a Payment in any other status
\* creates no Refund and changes nothing.
C13_RefundOnlyForCompleted ==
    /\ [](\A i \in 1 .. Len(refunds) :
             payments[refunds[i].payment].status = "completed")
    /\ [][RefundRequestStep =>
             LET payment == payments[LastRefundRequest.payment]
             IN  /\ payment.status # "completed" =>
                       refunds' = refunds /\ UNCHANGED AllButRefunds
                 /\ refunds' # refunds => payment.status = "completed"
         ]_vars

C13_Witness ==
    /\ \E i \in 1 .. Len(refundRequests) :
          /\ payments[refundRequests[i].payment].status # "completed"
          /\ ~HasRefund(refunds, refundRequests[i].payment)
    /\ Len(refunds) = 1

\* C14: a Payment has at most one Refund; a second request for a Payment
\* that has one is refused and leaves the existing Refund as it was.
C14_OneRefundPerPayment ==
    /\ [](\A i, j \in 1 .. Len(refunds) :
             refunds[i].payment = refunds[j].payment => i = j)
    /\ [][RefundRequestStep /\ HasRefund(refunds, LastRefundRequest.payment)
             => refunds' = refunds
         ]_vars

C14_Witness ==
    /\ Len(refundRequests) = 2
    /\ refundRequests[1].payment = refundRequests[2].payment
    /\ refundRequests[1].amount = 1
    /\ refundRequests[2].amount = 2
    /\ refunds = <<NewRefund(refundRequests[1].payment, 1)>>

\* C15: the amount of every Refund is at most the amount of its Payment; a
\* request for more is refused.
C15_RefundWithinPayment ==
    \A i \in 1 .. Len(refunds) :
        refunds[i].amount <= payments[refunds[i].payment].amount

\* C16: a request that leaves the amount blank, for a completed Payment
\* without a Refund, creates a Refund of the full payment.amount with status
\* requested, and the Payment stays completed.
C16_BlankAmountIsFullRefund ==
    [][(/\ RefundRequestStep
        /\ LastRefundRequest.amount = NULL
        /\ payments[LastRefundRequest.payment].status = "completed"
        /\ ~HasRefund(refunds, LastRefundRequest.payment))
          => /\ refunds' = Append(refunds,
                    [payment |-> LastRefundRequest.payment,
                     amount |-> payments[LastRefundRequest.payment].amount,
                     status |-> "requested"])
             /\ payments'[LastRefundRequest.payment].status = "completed"
             /\ payments' = payments
      ]_vars

C16_Witness ==
    /\ Len(refundRequests) = 1
    /\ refundRequests[1].amount = NULL
    /\ refundRequests[1].refunds_before = <<>>
    /\ Len(refunds) = 1
    /\ refunds[1].amount = payments[refunds[1].payment].amount
    /\ refunds[1].status = "requested"
    /\ payments[refunds[1].payment].status = "completed"

(***************************************************************************)
(* Tutor subscriptions                                                     *)
(***************************************************************************)
\* The step is handle_payment_success activating subscription Payment p.
ActivationStep(p) ==
    /\ p \in 1 .. Len(audit)
    /\ audit'[p].effects = audit[p].effects + 1
    /\ payments[p].payment_type = "subscription"

\* C17: a renewal sets end_date = max(existing end_date, now) + 30 * months,
\* so a renewal before expiry stacks on the remaining time, and no step
\* makes a subscription's end_date earlier than it was.
C17_RenewalStacks ==
    /\ [][\A p \in 1 .. Len(audit) :
             LET u == payments[p].user
             IN  ActivationStep(p) /\ subs[u].exists =>
                    subs'[u].end_date =
                        Max(subs[u].end_date, now)
                            + 30 * payments[p].metadata.months
         ]_vars
    /\ [][\A u \in Tutors :
             subs[u].exists =>
                 subs'[u].exists /\ subs'[u].end_date >= subs[u].end_date
         ]_vars

\* A 30-day renewal on day 30 of a 180-day subscription bought on day 0.
C17_Witness ==
    /\ subs["u2"].exists
    /\ subs["u2"].start_date = 0
    /\ subs["u2"].end_date = 210
    /\ subs["u2"].plan = "basic"
    /\ subs["u2"].amount_paid = 25000
    /\ now = 30

\* C18: the first completed subscription Payment of a tutor creates the
\* TutorSubscription with start_date = now, end_date = now + 30 * months,
\* amount_paid = payment.amount and status active, and sets the profile's
\* subscription_active and subscription_expiry = end_date.
C18_FirstSubscription ==
    [][\A p \in 1 .. Len(audit) :
          LET u == payments[p].user
          IN  ActivationStep(p) /\ ~subs[u].exists =>
                 /\ subs'[u].exists
                 /\ subs'[u].plan = payments[p].metadata.plan
                 /\ subs'[u].start_date = now
                 /\ subs'[u].end_date = now + 30 * payments[p].metadata.months
                 /\ subs'[u].amount_paid = payments[p].amount
                 /\ subs'[u].status = "active"
                 /\ profiles'[u].subscription_active
                 /\ profiles'[u].subscription_expiry = subs'[u].end_date
      ]_vars

\* The standard plan (3 months) activated on day 30.
C18_Witness ==
    /\ subs["u2"].exists
    /\ subs["u2"].plan = "standard"
    /\ subs["u2"].start_date = 30
    /\ subs["u2"].end_date = 120
    /\ subs["u2"].amount_paid = 12000
    /\ profiles["u2"].subscription_active
    /\ profiles["u2"].subscription_expiry = 120

\* Subscription Payments of tutor u that were completed.
CompletedSubscriptionPayments(u) ==
    {p \in PaymentIds : /\ payments[p].user = u
                        /\ payments[p].payment_type = "subscription"
                        /\ payments[p].completed_at # NULL}

RECURSIVE SumAmounts(_)
SumAmounts(ids) ==
    IF ids = {} THEN 0
    ELSE LET p == CHOOSE q \in ids : TRUE
         IN  payments[p].amount + SumAmounts(ids \ {p})

RECURSIVE SumMonths(_)
SumMonths(ids) ==
    IF ids = {} THEN 0
    ELSE LET p == CHOOSE q \in ids : TRUE
         IN  payments[p].metadata.months + SumMonths(ids \ {p})

\* C19: a subscription is created or extended exactly once per completed
\* subscription Payment: amount_paid is the sum of the amounts of the
\* tutor's completed subscription Payments and, while the clock stands
\* still, end_date - start_date is 30 days per month they bought.
C19_OncePerPayment ==
    \A u \in Tutors :
        /\ subs[u].amount_paid = SumAmounts(CompletedSubscriptionPayments(u))
        /\ (subs[u].exists /\ now = 0) =>
               subs[u].end_date - subs[u].start_date =
                   30 * SumMonths(CompletedSubscriptionPayments(u))

\* C20: as time advances, a TutorSubscription whose status is active has an
\* end_date in the future.
C20_ActiveEndsInFuture ==
    \A u \in Tutors :
        (subs[u].exists /\ subs[u].status = "active") => subs[u].end_date > now

(***************************************************************************)
(* Wallet: concurrent requests and the ledger                              *)
(***************************************************************************)
\* Credits minus debits of the calls on u's wallet that returned True.
RECURSIVE NetOfCalls(_, _)
NetOfCalls(u, n) ==
    IF n = 0 THEN 0
    ELSE NetOfCalls(u, n - 1)
         + (IF calls[n].user = u /\ calls[n].ok
            THEN IF calls[n].op = "add_funds" THEN calls[n].amount
                 ELSE 0 - calls[n].amount
            ELSE 0)

\* C21: under interleaved add_funds / deduct_funds on one wallet the balance
\* is never negative and equals the initial balance (0) plus the successful
\* credits minus the successful debits: no update is lost.
C21_NoLostUpdate ==
    \A u \in Users :
        /\ wallets[u].balance >= 0
        /\ wallets[u].balance = NetOfCalls(u, Len(calls))

(***************************************************************************)
(* Completion and its side effect                                          *)
(***************************************************************************)
\* The side effect that belongs to the type of Payment p is in place.
SideEffectApplied(p) ==
    LET payment == payments[p]
    IN  CASE payment.payment_type = "session" ->
                 sessions[payment.session].status = "confirmed"
          [] payment.payment_type = "subscription" ->
                 /\ subs[payment.user].exists
                 /\ subs[payment.user].status = "active"
                 /\ profiles[payment.user].subscription_active
          [] payment.payment_type = "wallet_topup" ->
                 \E i \in 1 .. Len(walletTx[payment.user]) :
                     /\ walletTx[payment.user][i].transaction_type = "credit"
                     /\ walletTx[payment.user][i].amount = payment.amount
          [] OTHER -> TRUE

\* C22: completion and its fan-out are atomic: no Payment is completed
\* while the side effect of its type has not been applied, also when a step
\* fails between the two writes.
C22_CompletionAtomic ==
    \A p \in PaymentIds :
        payments[p].status = "completed" => SideEffectApplied(p)

(***************************************************************************)
(* Resource downloads                                                      *)
(***************************************************************************)
DownloadStep == Len(downloads'.log) = Len(downloads.log) + 1

LastDownload == downloads'.log[Len(downloads'.log)]

\* A completed Payment of user u for resource pk exists.
CompletedPaymentLinks(u, pk) ==
    \E p \in 1 .. Len(payments) :
        /\ ~payments[p].deleted
        /\ payments[p].user = u
        /\ payments[p].resource = pk
        /\ payments[p].status = "completed"

C24_OneDefaultPerUser ==
    \A i, j \in 1 .. Len(paymentMethods) :
        (/\ paymentMethods[i].user = paymentMethods[j].user
         /\ paymentMethods[i].is_default
         /\ paymentMethods[j].is_default) => i = j

\* A user's earlier default lost the flag to the save of a later default.
C24_Witness ==
    \E i, j \in 1 .. Len(paymentMethods) :
        /\ paymentMethods[i].user = paymentMethods[j].user
        /\ paymentMethods[i].displaced
        /\ ~paymentMethods[i].is_default
        /\ paymentMethods[j].is_default

(***************************************************************************)
(* The wallet ledger                                                       *)
(***************************************************************************)
\* The amount of a row with its sign: credit adds, debit takes.
Signed(row) ==
    IF row.transaction_type = "credit" THEN row.amount ELSE 0 - row.amount

\* Credits minus debits of the first n rows.
RECURSIVE LedgerSum(_, _)
LedgerSum(rows, n) ==
    IF n = 0 THEN 0 ELSE LedgerSum(rows, n - 1) + Signed(rows[n])

\* C25: a wallet's balance is the sum of its credit rows minus the sum of
\* its debit rows, and every row's balance_after is the balance_after of the
\* row before it (0 before the first) plus or minus the row's amount.
C25_LedgerMatchesBalance ==
    \A u \in Users :
        /\ wallets[u].balance = LedgerSum(walletTx[u], Len(walletTx[u]))
        /\ \A i \in 1 .. Len(walletTx[u]) :
               walletTx[u][i].balance_after =
                   (IF i = 1 THEN 0 ELSE walletTx[u][i - 1].balance_after)
                       + Signed(walletTx[u][i])

(***************************************************************************)
(* Paying for a session                                                    *)
(***************************************************************************)
\* The completed Payments linked to session s.
CompletedPaymentsOf(s) ==
    {p \in PaymentIds : /\ payments[p].payment_type = "session"
                        /\ payments[p].session = s
                        /\ payments[p].status = "completed"}

\* C26: a tutoring session is linked to at most one completed Payment: a
\* session that has one cannot be paid for again through PayForSessionView
\* or a later gateway notification.
C26_OneCompletedPaymentPerSession ==
    \A s \in SessionIds : Cardinality(CompletedPaymentsOf(s)) <= 1

\* C27: the user of every session Payment is the student of its session: no
\* one else can create a Payment for the session or be debited for it.
C27_PayerIsStudent ==
    \A p \in PaymentIds :
        payments[p].payment_type = "session" =>
            payments[p].user = sessions[payments[p].session].student

C29_InvoiceNumbersIncrease ==
    [][Len(invoices'.rows) = Len(invoices.rows) + 1 =>
          \A i \in 1 .. Len(invoices.rows) :
              invoices.rows[i].invoice_number
                  < invoices'.rows[Len(invoices'.rows)].invoice_number
      ]_vars

(***************************************************************************)
(* Purchased packages                                                      *)
(***************************************************************************)
\* The step is a use_session call on the package pk.
UseSessionStep(pk) ==
    /\ pk \in 1 .. Len(packages)
    /\ packages'[pk].calls = packages[pk].calls + 1

\* C30: sessions_remaining is never negative; a use_session call succeeds
\* exactly when sessions_remaining > 0 and the package is not expired; a
\* successful call takes exactly one session and leaves is_active false when
\* it took the last one; a failed call changes nothing.
C30_UseSession ==
    /\ [](\A pk \in 1 .. Len(packages) : packages[pk].sessions_remaining >= 0)
    /\ [][\A pk \in PackageIds :
             UseSessionStep(pk) =>
                LET before == packages[pk]
                    after == packages'[pk]
                IN  /\ after.returned <=>
                           (before.sessions_remaining > 0
                               /\ now <= before.expires_at)
                    /\ after.returned =>
                          /\ after.sessions_remaining =
                                 before.sessions_remaining - 1
                          /\ after.sessions_remaining = 0 => ~after.is_active
                    /\ ~after.returned =>
                          /\ after.sessions_remaining =
                                 before.sessions_remaining
                          /\ after.is_active = before.is_active
                          /\ after.expires_at = before.expires_at
         ]_vars

\* A package used up (its last call succeeded and left it inactive) and a
\* package whose call was refused because it had expired.
C30_Witness ==
    \E pk, qk \in 1 .. Len(packages) :
        /\ packages[pk].calls > 0
        /\ packages[pk].returned
        /\ packages[pk].sessions_remaining = 0
        /\ ~packages[pk].is_active
        /\ packages[qk].calls > 0
        /\ ~packages[qk].returned
        /\ packages[qk].sessions_remaining > 0
        /\ now > packages[qk].expires_at

====
